---- MODULE Spec2Model ----
(***************************************************************************)
(* State-machine model of the AiEmailbox backend's workflow engine: the    *)
(* emails collection, the Kanban handlers (Move, Snooze, Summarize), the   *)
(* snooze worker with its ticker and its context, the sync upsert of       *)
(* remote emails, the hybrid search and the concurrent fetch of the remote *)
(* search results, the text functions of the search (accent folding,      *)
(* relaxed pattern, edit distance), the semantic search with the embedding *)
(* of batches, the stored embedding vectors over restarts with either     *)
(* provider, the read of the board, and the seeding of the default Kanban  *)
(* columns. Time is counted in minutes since the Unix epoch.               *)
(***************************************************************************)
EXTENDS Integers, Sequences, FiniteSets, TLC

VARIABLES
    emails,   \* the emails collection: stored id -> document
    now,      \* the wall clock (time.Now), in minutes since the epoch
    wpc,      \* snooze worker: "wait" (in select), "restore" (in the for loop) or "exited"
    wdue,     \* snooze worker: the due list still to be restored in this tick
    spc,      \* sync goroutine: "idle", "lookup" (before GetByID), "write" (before UpsertEmail)
    sync,     \* sync goroutine: the email value e it is about to upsert
    last,     \* history: the step taken last (request, arguments, HTTP code)
    owed,     \* history: ids due at the last tick's listing and not acted on since
    search,   \* the request followed: its inputs, its position and its result
    ctl       \* snooze worker: its context, its ticker channel, the faults of its store calls

storeVars == <<emails, now, wpc, wdue, spc, sync, last, owed, ctl>>

vars == <<emails, now, wpc, wdue, spc, sync, last, owed, search, ctl>>

\* ---------------------------------------------------------------- bounds

\* The clock runs from 0 to MaxTime.
MaxTime == 2

Users == {"A", "B"}

\* Gmail message ids; m1 lives in A's Gmail mailbox, m2 in B's.
Ids == {"m1", "m2"}

RemoteOwner(id) == IF id = "m1" THEN "A" ELSE "B"

\* ---------------------------------------------------------------- model of the data

StatusInbox == "inbox"
StatusTodo == "todo"
StatusInProgress == "in_progress"
StatusDone == "done"
StatusSnoozed == "snoozed"

\* The five canonical status tokens.
Canonical == {StatusInbox, StatusTodo, StatusInProgress, StatusDone, StatusSnoozed}

\* to_status values a Move request can carry: the canonical tokens, a token
\* that is none of them, and the empty string.
StatusTokens == Canonical \cup {"archived", ""}

\* A nil *time.Time (a document without the snoozedUntil field).
Null == -1

\* `until` strings a Snooze request can carry.
UntilInputs ==
    { "1970-01-01T00:01:00Z",
      "1970-01-01T01:02:00+01:00",
      "2099-01-01T00:00:00Z",
      "2099-01-01",
      "tomorrow" }

\* time.Parse(time.RFC3339, s): the instant, in minutes since the epoch, or
\* an error for a string that is not of the layout.
ParseRFC3339(s) ==
    CASE s = "1970-01-01T00:01:00Z"      -> [ok |-> TRUE, t |-> 1]
      [] s = "1970-01-01T01:02:00+01:00" -> [ok |-> TRUE, t |-> 62 - 60]
      [] s = "2099-01-01T00:00:00Z"      -> [ok |-> TRUE, t |-> 67848480]
      [] OTHER                           -> [ok |-> FALSE, t |-> Null]

\* models.Email as stored: the fields the workflow engine reads and writes.
NewDoc(u, st, su, sm) ==
    [userId |-> u, status |-> st, snoozedUntil |-> su, summary |-> sm]

\* binding:"required": a field of the JSON body that is missing or empty.
BindOK(field) == field # ""

\* ---------------------------------------------------------------- EmailRepository

\* idFilter: a Gmail id is no 24-digit ObjectID hex, so the filter is {_id: emailID}.
idFilter(store, emailID) == {id \in DOMAIN store : id = emailID}

\* UpdateStatus without the $unset of snoozedUntil.
UpdateStatus_NoUnset(store, emailID, status) ==
    [id \in DOMAIN store |->
        IF id \in idFilter(store, emailID)
        THEN [store[id] EXCEPT !.status = status]
        ELSE store[id]]

\* UpdateStatus as an upsert: an id that matches no document gets one.
UpdateStatus_Upsert(store, emailID, status) ==
    [id \in DOMAIN store \cup {emailID} |->
        IF id \in DOMAIN store
        THEN [store[id] EXCEPT
                !.status = IF id = emailID THEN status ELSE @,
                !.snoozedUntil = IF id = emailID /\ status # StatusSnoozed THEN Null ELSE @]
        ELSE NewDoc("", status, Null, "")]

\* UpdateStatus: $set status, and $unset snoozedUntil unless status is snoozed.
\* UpdateOne on an id that matches no document changes nothing and is no error.
UpdateStatus(store, emailID, status) ==
    [id \in DOMAIN store |->
        IF id \in idFilter(store, emailID)
        THEN [store[id] EXCEPT
                !.status = status,
                !.snoozedUntil = IF status # StatusSnoozed THEN Null ELSE @]
        ELSE store[id]]

\* SetSnooze that sets snoozedUntil and leaves the status as it is.
SetSnooze_NoStatus(store, emailID, until) ==
    [id \in DOMAIN store |->
        IF id \in idFilter(store, emailID)
        THEN [store[id] EXCEPT !.snoozedUntil = until]
        ELSE store[id]]

\* SetSnooze: $set status = snoozed and snoozedUntil = until.
SetSnooze(store, emailID, until) ==
    [id \in DOMAIN store |->
        IF id \in idFilter(store, emailID)
        THEN [store[id] EXCEPT !.status = StatusSnoozed, !.snoozedUntil = until]
        ELSE store[id]]

\* SetSummary: $set summary.
SetSummary(store, emailID, summary) ==
    [id \in DOMAIN store |->
        IF id \in idFilter(store, emailID)
        THEN [store[id] EXCEPT !.summary = summary]
        ELSE store[id]]

\* GetByID: the document, or mongo.ErrNoDocuments when none has the id.
GetByID(store, emailID) ==
    IF idFilter(store, emailID) = {}
    THEN [err |-> TRUE, doc |-> NewDoc("-", "", Null, "")]
    ELSE [err |-> FALSE, doc |-> store[emailID]]

\* UpsertEmail: {$set: email} with upsert. bson omitempty leaves a nil
\* snoozedUntil and an empty summary out of the $set, so the stored values of
\* those fields stay; status and userId are always written.
UpsertEmail(store, e) ==
    [id \in DOMAIN store \cup {e.id} |->
        IF id # e.id THEN store[id]
        ELSE IF id \in DOMAIN store
        THEN [store[id] EXCEPT
                !.userId = e.userId,
                !.status = e.status,
                !.snoozedUntil = IF e.snoozedUntil = Null THEN @ ELSE e.snoozedUntil,
                !.summary = IF e.summary = "" THEN @ ELSE e.summary]
        ELSE NewDoc(e.userId, e.status, e.snoozedUntil, e.summary)]

\* ListSnoozedDue with $lt in place of $lte.
ListSnoozedDue_Strict(store, t) ==
    {id \in DOMAIN store :
        /\ store[id].status = StatusSnoozed
        /\ store[id].snoozedUntil # Null
        /\ store[id].snoozedUntil < t}

\* ListSnoozedDue: {status: "snoozed", snoozedUntil: {$lte: now}}; a document
\* without snoozedUntil does not match $lte.
ListSnoozedDue(store, t) ==
    {id \in DOMAIN store :
        /\ store[id].status = StatusSnoozed
        /\ store[id].snoozedUntil # Null
        /\ store[id].snoozedUntil <= t}

\* The orders in which a cursor without a sort can return a set of documents.
CursorOrders(S) ==
    {s \in [1..Cardinality(S) -> S] : \A i, j \in 1..Cardinality(S) : s[i] = s[j] => i = j}

\* ---------------------------------------------------------------- history

\* The status the email had when the request arrived ("-" when none is stored).
Was(id) == IF id \in DOMAIN emails THEN emails[id].status ELSE "-"

Step(op, u, id, to, until, code) ==
    [op |-> op, user |-> u, id |-> id, to |-> to, until |-> until, code |-> code,
     was |-> Was(id)]

Internal(op, id) == Step(op, "-", id, "-", "-", 0)

\* An email a user or the sync acts on is no longer owed to the last tick.
Touch(id) == owed \ {id}

\* ---------------------------------------------------------------- KanbanHandler

\* POST /api/kanban/move
Move(u, id, to) ==
    /\ IF ~BindOK(to)
       THEN /\ last' = Step("move", u, id, to, "-", 400)
            /\ UNCHANGED <<emails, owed>>
       ELSE /\ emails' = UpdateStatus(emails, id, to)
            /\ last' = Step("move", u, id, to, "-", 200)
            /\ owed' = Touch(id)
    /\ UNCHANGED <<now, wpc, wdue, spc, sync, search, ctl>>

\* POST /api/kanban/snooze
Snooze(u, id, until) ==
    /\ IF ~BindOK(until) \/ ~ParseRFC3339(until).ok
       THEN /\ last' = Step("snooze", u, id, "-", until, 400)
            /\ UNCHANGED <<emails, owed>>
       ELSE /\ emails' = SetSnooze(emails, id, ParseRFC3339(until).t)
            /\ last' = Step("snooze", u, id, "-", until, 200)
            /\ owed' = Touch(id)
    /\ UNCHANGED <<now, wpc, wdue, spc, sync, search, ctl>>

\* SummarizeText on the stored body: the extractive summary of a non-empty text.
SummarizeText(id) == "sum"

\* POST /api/kanban/summarize: SummarizeAndSave reads the email and stores its summary.
Summarize(u, id) ==
    /\ IF GetByID(emails, id).err
       THEN /\ last' = Step("summarize", u, id, "-", "-", 500)
            /\ UNCHANGED <<emails, owed>>
       ELSE /\ emails' = SetSummary(emails, id, SummarizeText(id))
            /\ last' = Step("summarize", u, id, "-", "-", 200)
            /\ owed' = Touch(id)
    /\ UNCHANGED <<now, wpc, wdue, spc, sync, search, ctl>>

\* ---------------------------------------------------------------- the sync goroutine

\* mapGmailMessageToEmail: a remote email carries no workflow fields. err
\* records whether the sync's lookup of the stored record returned an error
\* other than "no document".
RemoteEmail(id) ==
    [id |-> id, userId |-> "", status |-> "", snoozedUntil |-> Null, summary |-> "",
     err |-> FALSE]

NoSync == RemoteEmail("-")

\* GetEmails, SearchEmails and ModifyEmail hand each email fetched from the
\* user's Gmail mailbox to the sync; one email is synced at a time.
SyncStart(u, id) ==
    /\ spc = "idle"
    /\ RemoteOwner(id) = u
    /\ spc' = "lookup"
    /\ sync' = RemoteEmail(id)
    /\ last' = Internal("sync", id)
    /\ UNCHANGED <<emails, now, wpc, wdue, owed, search, ctl>>

\* existing, err := GetByID(e.ID): copy the workflow fields of the stored
\* record, or default the status to inbox; then e.UserID = user.
Preserve(e, found, u) ==
    IF ~found.err
    THEN [e EXCEPT !.status = found.doc.status,
                   !.snoozedUntil = found.doc.snoozedUntil,
                   !.summary = found.doc.summary,
                   !.userId = u]
    ELSE [e EXCEPT !.status = StatusInbox, !.userId = u]

\* The outcomes of a store call the sync makes under its own context (TRUE:
\* no error): a call to a failing store may fail.
StoreOutcomes == IF ctl.faults THEN {TRUE, FALSE} ELSE {TRUE}

\* GetByID's answer to the sync: what the store holds, or an error of the call
\* itself (a timeout, a lost connection) with no document.
LookupAnswer(store, emailID, ok) ==
    IF ok THEN GetByID(store, emailID)
    ELSE [err |-> TRUE, doc |-> NewDoc("-", "", Null, "")]

\* existing, err := h.emailRepo.GetByID(syncCtx, e.ID)
SyncLookup ==
    /\ spc = "lookup"
    /\ \E ok \in StoreOutcomes :
        /\ sync' = [Preserve(sync, LookupAnswer(emails, sync.id, ok),
                          RemoteOwner(sync.id)) EXCEPT !.err = ~ok]
        /\ last' = Internal(IF ok THEN "lookup" ELSE "lookup-failed", sync.id)
    /\ spc' = "write"
    /\ UNCHANGED <<emails, now, wpc, wdue, owed, search, ctl>>

\* _ = h.emailRepo.UpsertEmail(syncCtx, e): the error of the write is dropped.
SyncWrite ==
    /\ spc = "write"
    /\ \E ok \in StoreOutcomes :
        IF ok
        THEN /\ emails' = UpsertEmail(emails, sync)
             /\ last' = Internal("upsert", sync.id)
             /\ owed' = Touch(sync.id)
        ELSE /\ last' = Internal("upsert-failed", sync.id)
             /\ UNCHANGED <<emails, owed>>
    /\ spc' = "idle"
    /\ sync' = NoSync
    /\ UNCHANGED <<now, wpc, wdue, search, ctl>>

\* ---------------------------------------------------------------- the clock and the ticker

\* time.NewTicker: the ticker's channel holds one tick.
TickerCap == 1

\* A ticker whose channel queues every tick.
TickerSend_Queue(pending) == pending + 1

\* The ticker sends without blocking: a tick that finds the channel full is dropped.
TickerSend(pending) == IF pending < TickerCap THEN pending + 1 ELSE pending

\* One interval passes and the ticker fires, unless the worker has stopped it.
AdvanceClock ==
    /\ now < MaxTime
    /\ now' = now + 1
    /\ ctl' = IF wpc = "exited" THEN ctl ELSE [ctl EXCEPT !.pending = TickerSend(@)]
    /\ last' = Internal("clock", "-")
    /\ UNCHANGED <<emails, wpc, wdue, spc, sync, owed, search>>

\* The ticker goes on firing once the clock has reached MaxTime: the
\* intervals pass, the time is no longer counted.
TickerFires ==
    /\ now = MaxTime
    /\ wpc # "exited"
    /\ ctl.pending < TickerCap
    /\ ctl' = [ctl EXCEPT !.pending = TickerSend(@)]
    /\ last' = Internal("clock", "-")
    /\ UNCHANGED <<emails, now, wpc, wdue, spc, sync, owed, search>>

\* ---------------------------------------------------------------- StartSnoozeWorker

\* The worker's context, never cancelled, over a store that does not fail.
NoFaults == [cancelled |-> FALSE, faults |-> FALSE, pending |-> 0, failed |-> {}]

\* Store calls that go on succeeding under a cancelled context.
CallOutcomes_IgnoreCtx(c) == IF c.faults THEN {TRUE, FALSE} ELSE {TRUE}

\* The outcomes of a store call made with ctx (TRUE: no error): a call under
\* a cancelled context fails, a call to a failing store may fail.
CallOutcomes(c) ==
    IF c.cancelled THEN {FALSE}
    ELSE IF c.faults THEN {TRUE, FALSE}
    ELSE {TRUE}

\* A restore loop that gives the tick up at the first failed update.
RestOfDue_StopOnError(due, ok) == IF ok THEN Tail(due) ELSE <<>>

\* for _, e := range due: a failed update is logged and the loop goes on.
RestOfDue(due, ok) == Tail(due)

\* case <-ticker.C: list the due emails; an error ends the tick (continue),
\* and so does an empty list.
WorkerTick ==
    /\ wpc = "wait"
    /\ ctl.pending >= 1
    /\ \E ok \in CallOutcomes(ctl) :
        IF ok
        THEN /\ \E due \in CursorOrders(ListSnoozedDue(emails, now)) :
                  /\ wdue' = due
                  /\ wpc' = IF due = <<>> THEN "wait" ELSE "restore"
             /\ owed' = {id \in DOMAIN emails :
                           /\ emails[id].status = StatusSnoozed
                           /\ emails[id].snoozedUntil # Null
                           /\ emails[id].snoozedUntil <= now}
             /\ last' = Internal("tick", "-")
        ELSE /\ UNCHANGED <<wdue, wpc, owed>>
             /\ last' = Internal("tick-failed", "-")
    /\ ctl' = [ctl EXCEPT !.pending = @ - 1, !.failed = {}]
    /\ UNCHANGED <<emails, now, spc, sync, search>>

\* for _, e := range due: restore e to inbox via UpdateStatus, or log the error.
WorkerRestore ==
    /\ wpc = "restore"
    /\ \E ok \in CallOutcomes(ctl) :
        /\ IF ok
           THEN /\ emails' = UpdateStatus(emails, Head(wdue), StatusInbox)
                /\ last' = Internal("restore", Head(wdue))
                /\ UNCHANGED <<owed, ctl>>
           ELSE /\ last' = Internal("restore-failed", Head(wdue))
                /\ owed' = owed \ {Head(wdue)}
                /\ ctl' = [ctl EXCEPT !.failed = @ \cup {Head(wdue)}]
                /\ UNCHANGED emails
        /\ wdue' = RestOfDue(wdue, ok)
        /\ wpc' = IF RestOfDue(wdue, ok) = <<>> THEN "wait" ELSE "restore"
    /\ UNCHANGED <<now, spc, sync, search>>

\* case <-ctx.Done(): return; the deferred ticker.Stop() stops the ticker.
WorkerExit ==
    /\ wpc = "wait"
    /\ ctl.cancelled
    /\ wpc' = "exited"
    /\ last' = Internal("exit", "-")
    /\ UNCHANGED <<emails, now, wdue, spc, sync, owed, search, ctl>>

\* main: workerCancel() on the shutdown signal.
Cancel ==
    /\ ~ctl.cancelled
    /\ ctl' = [ctl EXCEPT !.cancelled = TRUE]
    /\ last' = Internal("cancel", "-")
    /\ UNCHANGED <<emails, now, wpc, wdue, spc, sync, owed, search>>

\* ---------------------------------------------------------------- EmailHandler.SearchEmails

\* Ids a search can return, and the most hits one source returns.
SearchIds == {"m1", "m2", "m3"}

MaxHits == 2

\* A search hit: the remote version of an email comes from
\* mapGmailMessageToEmail and carries no workflow status, the local version
\* is the stored document.
Hit(id, status) == [id |-> id, status |-> status]

RemoteHits == {Hit(id, "") : id \in SearchIds}

LocalHits == {Hit(id, st) : id \in SearchIds, st \in {StatusInbox, StatusDone}}

\* The ids of a list of hits.
HitIds(list) == {list[i].id : i \in DOMAIN list}

\* The result lists of one source: at most MaxHits hits, no id twice.
HitLists(hits) ==
    UNION {{l \in [1..n -> hits] : \A i, j \in 1..n : l[i].id = l[j].id => i = j} : n \in 0..MaxHits}

\* emailMap[e.ID] = e
Put(m, e) == [id \in DOMAIN m \cup {e.id} |-> IF id = e.id THEN e ELSE m[id]]

\* for _, e := range gmailEmails { emailMap[e.ID] = *e }
RECURSIVE MergeGmail(_, _)
MergeGmail(m, list) ==
    IF list = <<>> THEN m ELSE MergeGmail(Put(m, Head(list)), Tail(list))

\* The local loop without the exists check: a local hit overwrites a remote one.
RECURSIVE MergeLocal_Overwrite(_, _)
MergeLocal_Overwrite(m, list) ==
    IF list = <<>> THEN m ELSE MergeLocal_Overwrite(Put(m, Head(list)), Tail(list))

\* for _, e := range localEmails { if _, exists := emailMap[e.ID]; !exists { emailMap[e.ID] = e } }
RECURSIVE MergeLocal(_, _)
MergeLocal(m, list) ==
    IF list = <<>> THEN m
    ELSE MergeLocal(IF Head(list).id \in DOMAIN m THEN m ELSE Put(m, Head(list)), Tail(list))

EmptyMap == [id \in {} |-> Hit(id, "")]

\* for _, e := range emailMap: Go ranges over a map in an unspecified order.
MapOrders(m) ==
    {[i \in 1..Cardinality(DOMAIN m) |-> m[o[i]]] : o \in CursorOrders(DOMAIN m)}

NoSearch == [pc |-> "idle", gmailEmails |-> <<>>, localEmails |-> <<>>, finalEmails |-> <<>>]

\* Both sources have answered: merge, deduplicating by id, and build the final slice.
SearchMerge ==
    /\ search.pc = "merge"
    /\ \E final \in MapOrders(MergeLocal(MergeGmail(EmptyMap, search.gmailEmails),
                                         search.localEmails)) :
        search' = [search EXCEPT !.pc = "done", !.finalEmails = final]
    /\ UNCHANGED storeVars

\* ---------------------------------------------------------------- the whole search request

\* A query string is a sequence of characters; "é" stands for the characters
\* that UTF-8 encodes in two bytes.
Utf8Len(ch) ==
    IF ch \in {"é", "á", "Á", "à", "ê", "U+0111", "ü"} THEN 2
    ELSE IF ch \in {"U+6771", "U+4EAC"} THEN 3
    ELSE 1

\* len(query): the length of a Go string in bytes.
RECURSIVE ByteLen(_)
ByteLen(q) == IF q = <<>> THEN 0 ELSE Utf8Len(Head(q)) + ByteLen(Tail(q))

\* The q parameters a request can carry (c.Query returns the value untrimmed).
Queries ==
    { <<>>,
      <<"a", "b">>,
      <<"a", "b", "c">>,
      <<"é", "é">>,
      <<"a", "b", " ", " ">>,
      <<" ", "a", "b", "c", " ">>,
      <<"x", "k", "c", "q", "z">>,
      <<"i", "n", ":", "t", "r", "a", "s", "h">> }

\* The query that asks the mailbox for the messages in its trash.
InTrash == <<"i", "n", ":", "t", "r", "a", "s", "h">>

\* The time each message was received (models.Email.ReceivedAt); m1 and m3
\* were received in the same instant.
ReceivedAt(id) == IF id = "m2" THEN 1 ELSE 2

\* The user whose requests are followed, and the number of requests.
SearchUser == "A"

MaxCalls == 2

\* What a source answers: an error, or a list of hits.
Answer(err, list) == [err |-> err, emails |-> list]

\* if len(emailMap) == 0 && len(query) > 3
FuzzyGate(emailMap, query) == DOMAIN emailMap = {} /\ ByteLen(query) > 3

\* The fallback: every email of the board that the scan matches is put in the
\* map; an error of GetKanban leaves the map as it is.
RECURSIVE FuzzyScan(_, _)
FuzzyScan(m, list) ==
    IF list = <<>> THEN m ELSE FuzzyScan(Put(m, Head(list)), Tail(list))

\* if len(gmailEmails) > 0 { go func(emails) ... }(gmailEmails): the emails
\* handed to the sync goroutine (none: no goroutine is started).
SyncHandOff(gmail) == gmail.emails

\* A handler that answers a failed remote search as a success without hits.
SearchCode_EmptySuccess(s) == IF s.query = <<>> THEN 400 ELSE 200

\* The HTTP code of the response: 400 without a query, 500 when the remote
\* search fails, 200 otherwise (a failure of the local search included).
SearchCode(s) ==
    IF s.query = <<>> THEN 400
    ELSE IF s.gmail.err THEN 500
    ELSE 200

\* if err != nil { localEmails = []models.Email{} }
LocalOrEmpty(local) == IF local.err THEN <<>> ELSE local.emails

\* The map of the request after the merge and the fallback.
SearchMap(s) ==
    LET merged == MergeLocal(MergeGmail(EmptyMap, s.gmail.emails), LocalOrEmpty(s.local))
    IN IF FuzzyGate(merged, s.query) /\ ~s.kanban.err
       THEN FuzzyScan(merged, s.kanban.emails)
       ELSE merged

\* The estimate of the remote search passed on as it is.
TotalEstimate_Remote(estimate, finalEmails) == estimate

\* totalEstimate := estimate; if len(finalEmails) > totalEstimate { ... }
TotalEstimate(estimate, finalEmails) ==
    IF Len(finalEmails) > estimate THEN Len(finalEmails) ELSE estimate

\* GET /api/emails/search, from the first line to the response.
SearchEmails ==
    /\ search.calls < MaxCalls
    /\ IF SearchCode(search) # 200
       THEN search' = [search EXCEPT !.calls = @ + 1, !.code = SearchCode(search),
                                     !.fuzzy = FALSE, !.finalEmails = <<>>,
                                     !.totalEstimate = 0]
       ELSE \E final \in MapOrders(SearchMap(search)) :
              search' = [search EXCEPT
                  !.calls = @ + 1,
                  !.code = SearchCode(search),
                  !.fuzzy = FuzzyGate(MergeLocal(MergeGmail(EmptyMap, search.gmail.emails),
                                                 LocalOrEmpty(search.local)),
                                      search.query),
                  !.finalEmails = final,
                  !.totalEstimate = TotalEstimate(search.estimate, final),
                  !.syncing = @ \o SyncHandOff(search.gmail)]
    /\ last' = Internal("search", "-")
    /\ UNCHANGED <<emails, now, wpc, wdue, spc, sync, owed, ctl>>

\* The body of the sync loop for one email handed over by a search: GetByID,
\* the copy of the stored workflow fields, UpsertEmail. No other writer runs
\* beside it here, so the two store calls are taken as one step.
SearchSync ==
    /\ search.syncing # <<>>
    /\ LET e == Preserve(RemoteEmail(Head(search.syncing).id),
                         GetByID(emails, Head(search.syncing).id), SearchUser)
       IN emails' = UpsertEmail(emails, e)
    /\ search' = [search EXCEPT !.syncing = Tail(@)]
    /\ last' = Internal("upsert", Head(search.syncing).id)
    /\ UNCHANGED <<now, wpc, wdue, spc, sync, owed, ctl>>

\* ---------------------------------------------------------------- GmailService.SearchEmails

\* const maxConcurrency = 10, the capacity of the semaphore channel. The
\* model runs the same protocol on a smaller capacity, so that listings
\* longer than the capacity stay enumerable.
maxConcurrency == 2

\* The most messages one listing returns.
MaxStubs == 4

\* The goroutines of a listing of n messages, by index.
Fetchers(s) == 1..s.n

\* The tokens in sem: one per goroutine launched and not yet returned.
Tokens(s) == Cardinality({i \in Fetchers(s) : s.gpc[i] \in {"fetch", "snippet"}})

\* A launch loop that never waits for a token.
CanLaunch_Unbounded(s) == s.launched < s.n

\* sem <- struct{}{}: the send blocks while the channel is full.
CanLaunch(s) == s.launched < s.n /\ Tokens(s) < maxConcurrency

\* resultsChan <- result{...}: the channel has room for every message, so
\* the send never blocks; the deferred <-sem then frees the token.
SendResult(s, i, ok) ==
    [s EXCEPT !.gpc[i] = "done",
              !.chan = Append(@, [index |-> i, ok |-> ok])]

\* A collection that stores every result it receives, failed or not.
Store_AllResults(slots, res) == [slots EXCEPT ![res.index] = TRUE]

\* if res.err == nil && res.email != nil { emails[res.index] = res.email }
Store(slots, res) == IF res.ok THEN [slots EXCEPT ![res.index] = TRUE] ELSE slots

\* The non-nil entries collected from the last index down.
RECURSIVE Valid_Reversed(_, _)
Valid_Reversed(slots, n) ==
    IF n = 0 THEN <<>>
    ELSE IF slots[n] THEN <<n>> \o Valid_Reversed(slots, n - 1)
    ELSE Valid_Reversed(slots, n - 1)

\* validEmails: the non-nil entries of emails, in index order.
RECURSIVE Valid(_, _)
Valid(slots, n) ==
    IF n = 0 THEN <<>>
    ELSE IF slots[n] THEN Append(Valid(slots, n - 1), n) ELSE Valid(slots, n - 1)

\* Messages.List: an error ends the call, an empty listing returns at once,
\* anything else goes to the launch loop.
ListMessages ==
    /\ search.pc = "list"
    /\ search' = [search EXCEPT !.pc = IF search.listErr THEN "failed"
                                       ELSE IF search.n = 0 THEN "returned"
                                       ELSE "launch"]
    /\ UNCHANGED storeVars

\* for i, msgHeader := range resp.Messages { sem <- struct{}{}; go func... }
Launch ==
    /\ search.pc = "launch"
    /\ CanLaunch(search)
    /\ search' = [search EXCEPT !.launched = @ + 1,
                                !.gpc[search.launched + 1] = "fetch",
                                !.pc = IF search.launched + 1 = search.n
                                       THEN "collect" ELSE "launch"]
    /\ UNCHANGED storeVars

\* Messages.Get fails: the goroutine sends the error and returns.
FetchFail(i) ==
    /\ search.pc \in {"launch", "collect"}
    /\ search.gpc[i] = "fetch"
    /\ search' = SendResult(search, i, FALSE)
    /\ UNCHANGED storeVars

\* Messages.Get succeeds and the body holds the query as it is: the snippet
\* is cut without the accent transformer, the goroutine sends the email.
FetchHit(i) ==
    /\ search.pc \in {"launch", "collect"}
    /\ search.gpc[i] = "fetch"
    /\ search' = [SendResult(search, i, TRUE) EXCEPT !.fetched = @ \cup {i}]
    /\ UNCHANGED storeVars

\* Messages.Get succeeds and the body does not hold the query: the goroutine
\* enters transform.String(t, ...) on the package's one transformer t.
FetchMiss(i) ==
    /\ search.pc \in {"launch", "collect"}
    /\ search.gpc[i] = "fetch"
    /\ search' = [search EXCEPT !.gpc[i] = "snippet", !.fetched = @ \cup {i}]
    /\ UNCHANGED storeVars

\* The transformer calls return and the goroutine sends the email. When
\* another goroutine used t meanwhile the snippet it cut may be off; the
\* preview text is not followed here.
SnippetDone(i) ==
    /\ search.pc \in {"launch", "collect"}
    /\ search.gpc[i] = "snippet"
    /\ search' = SendResult(search, i, TRUE)
    /\ UNCHANGED storeVars

\* Two goroutines inside transform.String on the same chain at once: a data
\* race on the chain's buffers and offsets. Besides returning (SnippetDone),
\* a call can run over a slice bound and panic; a panic in a goroutine ends
\* the process.
SnippetPanic ==
    /\ search.pc \in {"launch", "collect"}
    /\ \E i, j \in Fetchers(search) :
        i # j /\ search.gpc[i] = "snippet" /\ search.gpc[j] = "snippet"
    /\ search' = [search EXCEPT !.pc = "crashed"]
    /\ UNCHANGED storeVars

\* The client gives the request up (or its 20 s run out) while the fetches
\* run. The handler builds its context from context.Background(), and the
\* Messages.Get calls and the launch loop take no context: nothing of the
\* enrichment reads the cancellation.
RequestCancel ==
    /\ search.pc \in {"launch", "collect"}
    /\ ~search.cancelled
    /\ search' = [search EXCEPT !.cancelled = TRUE]
    /\ UNCHANGED storeVars

\* res := <-resultsChan, once per message.
Collect ==
    /\ search.pc = "collect"
    /\ search.got < search.n
    /\ search.chan # <<>>
    /\ search' = [search EXCEPT !.got = @ + 1,
                                !.chan = Tail(@),
                                !.arrived = Append(@, Head(search.chan).index),
                                !.slots = Store(@, Head(search.chan))]
    /\ UNCHANGED storeVars

\* Filter out nils and return.
Return ==
    /\ search.pc = "collect"
    /\ search.got = search.n
    /\ search' = [search EXCEPT !.pc = "returned", !.valid = Valid(search.slots, search.n)]
    /\ UNCHANGED storeVars

\* ---------------------------------------------------------------- utils: text functions

\* The longest string of the exhaustive inputs, and their alphabet: a letter
\* in both cases, an accented letter of the table, a letter with a diacritic
\* the table does not have.
MaxLen == 2

Alphabet == {"a", "A", "á", "u", "ü"}

\* Longer strings: subjects, summaries and queries. A rune outside Latin-1
\* is written by its code point: U+0111 is d with stroke, U+6771 and U+4EAC
\* are two CJK ideographs.
Samples ==
    { <<"x", "k", "c", "q", "z">>,
      <<"x", "k", "c", "q", "y">>,
      <<"t", "o", "k", "y", "o">>,
      <<"t", "o", "k", "y", "o", "U+6771", "U+4EAC">>,
      <<"c", "à", " ", "p", "h", "ê">>,
      <<"C", "a", " ", "p", "h", "e">>,
      <<"U+0111", "Á", "u">> }

Strings == UNION {[1..n -> Alphabet] : n \in 0..MaxLen} \cup Samples

\* strings.ToLower, rune by rune.
LowerRune(ch) ==
    CASE ch = "A" -> "a"
      [] ch = "Á" -> "á"
      [] ch = "C" -> "c"
      [] OTHER -> ch

ToLower(s) == [i \in DOMAIN s |-> LowerRune(s[i])]

\* A table without the letters with an acute accent.
accents_NoAcute(ch) ==
    CASE ch = "à" -> "a"
      [] ch = "U+0111" -> "d"
      [] ch = "ê" -> "e"
      [] OTHER -> ch

\* accents: the map of the precomposed Vietnamese letters to their base
\* letters, small to small and capital to capital; a rune that is no key of
\* the map is written as it is.
accents(ch) ==
    CASE ch \in {"á", "à"} -> "a"
      [] ch = "Á" -> "A"
      [] ch = "U+0111" -> "d"
      [] ch \in {"é", "ê"} -> "e"
      [] OTHER -> ch

\* RemoveAccents: for _, r := range s { sb.WriteRune(accents[r] or r) }
RemoveAccents(s) == [i \in DOMAIN s |-> accents(s[i])]

Min3(a, b, c) ==
    IF a <= b /\ a <= c THEN a ELSE IF b <= c THEN b ELSE c

\* The inner loop of Levenshtein at column j of row i: row holds the row
\* above from column j - 1 on, prev the value at the left.
RECURSIVE LevInner(_, _, _, _, _, _)
LevInner(r1, r2, i, j, row, prev) ==
    IF j > Len(r2) THEN [row EXCEPT ![Len(r2)] = prev]
    ELSE LET val == IF r1[i] = r2[j]
                    THEN row[j - 1]
                    ELSE Min3(row[j - 1] + 1, prev + 1, row[j] + 1)
         IN LevInner(r1, r2, i, j + 1, [row EXCEPT ![j - 1] = prev], val)

\* for i := 1; i <= n; i++ { prev := i; ...; row[m] = prev }
RECURSIVE LevOuter(_, _, _, _)
LevOuter(r1, r2, i, row) ==
    IF i > Len(r1) THEN row
    ELSE LevOuter(r1, r2, i + 1, LevInner(r1, r2, i, 1, row, i))

\* Levenshtein on the strings as they are, without the lower-casing.
Levenshtein_CaseSensitive(s1, s2) ==
    IF Len(s1) = 0 THEN Len(s2)
    ELSE IF Len(s2) = 0 THEN Len(s1)
    ELSE LevOuter(s1, s2, 1, [j \in 0..Len(s2) |-> j])[Len(s2)]

\* Levenshtein: lower-case both strings, take their runes, run the
\* single-row dynamic program.
Levenshtein(s1, s2) ==
    LET r1 == ToLower(s1)
        r2 == ToLower(s2)
    IN IF Len(r1) = 0 THEN Len(r2)
       ELSE IF Len(r2) = 0 THEN Len(r1)
       ELSE LevOuter(r1, r2, 1, [j \in 0..Len(r2) |-> j])[Len(r2)]

abs(x) == IF x < 0 THEN -x ELSE x

\* const fuzzyThreshold = 3
fuzzyThreshold == 3

\* The test of one field in the fallback: the length check first, on the
\* lengths in bytes, then the distance.
FieldMatches(normQuery, normField) ==
    /\ abs(ByteLen(normField) - ByteLen(normQuery)) <= fuzzyThreshold
    /\ Levenshtein(normQuery, normField) <= fuzzyThreshold

\* The body of the fallback's loop for one email of the board: the subject,
\* then the summary if there is one.
FuzzyMatches(query, subject, summary) ==
    \/ FieldMatches(RemoveAccents(query), RemoveAccents(subject))
    \/ /\ summary # <<>>
       /\ FieldMatches(RemoveAccents(query), RemoveAccents(summary))

\* The character class the pattern has for a rune of the lower-cased query:
\* the base letters a, d, e, i, o, u, y get the class of their accented
\* variants, every other rune stands for itself (escaped where needed).
RelaxedClass(r) ==
    CASE r = "a" -> {"a", "á", "à"}
      [] r = "d" -> {"d", "U+0111"}
      [] r = "e" -> {"e", "é", "ê"}
      [] OTHER -> {r}

\* GenerateRelaxedRegex: the pattern as the sequence of its classes.
GenerateRelaxedRegex(s) == [i \in DOMAIN s |-> RelaxedClass(ToLower(s)[i])]

\* {"$regex": pattern, "$options": "i"} on one field: the pattern matches
\* somewhere in the text, letters compared without case.
RegexMatch(pattern, text) ==
    \E off \in 0..(Len(text) - Len(pattern)) :
        \A k \in DOMAIN pattern : LowerRune(text[off + k]) \in pattern[k]

\* The calls followed on two strings a, b and a summary c.
NoText(a, b, c) == [pc |-> "text", a |-> a, b |-> b, c |-> c, out |-> <<>>]

ApplyLevenshtein ==
    /\ search.pc = "text"
    /\ search' = [search EXCEPT !.pc = "lev",
                                !.out = <<Levenshtein(search.a, search.b),
                                          Levenshtein(search.b, search.a),
                                          Levenshtein(search.a, search.a),
                                          Levenshtein(search.a, <<>>)>>]
    /\ UNCHANGED storeVars

ApplyRemoveAccents ==
    /\ search.pc = "text"
    /\ search' = [search EXCEPT !.pc = "fold",
                                !.out = <<RemoveAccents(search.a),
                                          RemoveAccents(search.b),
                                          RemoveAccents(RemoveAccents(search.a))>>]
    /\ UNCHANGED storeVars

ApplyFuzzy ==
    /\ search.pc = "text"
    /\ ByteLen(search.a) > 3
    /\ search' = [search EXCEPT !.pc = "fuzzy",
                                !.out = <<FuzzyMatches(search.a, search.b, search.c)>>]
    /\ UNCHANGED storeVars

ApplyRegex ==
    /\ search.pc = "text"
    /\ search.a # <<>>
    /\ search' = [search EXCEPT !.pc = "regex",
                                !.out = <<RegexMatch(GenerateRelaxedRegex(search.a), search.b)>>]
    /\ UNCHANGED storeVars

\* ---------------------------------------------------------------- handlers: semantic search

\* The limits of the two handlers, scaled to the size of the corpus: the
\* result limit used when none is asked for and the largest one allowed
\* (10 and 50 in the source), and the same two for the batch of emails to
\* embed (50 and 100 in the source).
defaultLimit == 1

maxLimit == 2

defaultBatch == 2

maxBatch == 3

\* The longest list of texts given to BatchGenerateEmbeddings.
MaxTexts == 3

\* An embedding is held by its cosine similarity to the vector of the query;
\* Null is a document without the field, Empty one with a vector of length 0.
Empty == -2

Scores == {0, 1}

\* The documents of the collection: m2 may be another user's, m3 may carry
\* the TRASH label.
Corpora ==
    {[id \in SearchIds |->
        [userId |-> IF id = "m2" THEN u ELSE SearchUser,
         embedding |-> e[id],
         trash |-> id = "m3" /\ t]] :
        u \in Users, t \in BOOLEAN, e \in [SearchIds -> {Null, Empty} \cup Scores]}

\* The orders of a set of ids in which no id stands before one that key
\* puts first.
SortedBy(S, key(_)) ==
    {q \in [1..Cardinality(S) -> S] :
        /\ \A i, j \in DOMAIN q : i # j => q[i] # q[j]
        /\ \A i, j \in DOMAIN q : i < j => key(q[i]) >= key(q[j])}

Prefix(q, n) == SubSeq(q, 1, IF n < Len(q) THEN n ELSE Len(q))

\* GetAllWithEmbeddings: the user's documents with an embedding field that
\* is not null, TRASH left out, newest first.
GetAllWithEmbeddings(corpus, userID) ==
    SortedBy({id \in DOMAIN corpus :
                 /\ corpus[id].userId = userID
                 /\ corpus[id].embedding # Null
                 /\ ~corpus[id].trash}, ReceivedAt)

\* GetEmailsWithoutEmbedding: the user's documents without a vector, TRASH
\* left out, newest first, at most limit of them.
GetEmailsWithoutEmbedding(corpus, userID, limit) ==
    {Prefix(q, limit) :
        q \in SortedBy({id \in DOMAIN corpus :
                           /\ corpus[id].userId = userID
                           /\ corpus[id].embedding \in {Null, Empty}
                           /\ ~corpus[id].trash}, ReceivedAt)}

\* A limit that is passed on as it was asked for when it is too large.
Clamp_NoCap(limit) == IF limit <= 0 THEN defaultLimit ELSE limit

\* if limit <= 0 { limit = 10 }; if limit > 50 { limit = 50 }
Clamp(limit) ==
    IF limit <= 0 THEN defaultLimit
    ELSE IF limit > maxLimit THEN maxLimit
    ELSE limit

NoSemantic(corpus) ==
    [pc |-> "idle", corpus |-> corpus, req |-> <<>>, code |-> 0,
     results |-> <<>>, counts |-> <<>>]

\* POST /search/semantic: 400 for a blank query, 500 when the query cannot
\* be embedded or the documents cannot be read; else the documents with a
\* vector, sorted by score (the sort is not stable), cut at the limit.
SemanticSearch(query, limit, embedErr, repoErr) ==
    /\ search.pc = "idle"
    /\ LET req == <<query, limit, embedErr, repoErr>>
           done(code, results) ==
               search' = [search EXCEPT !.pc = "searched", !.req = req,
                                        !.code = code, !.results = results]
       IN IF \A i \in DOMAIN query : query[i] = " " THEN done(400, <<>>)
          ELSE IF embedErr \/ repoErr THEN done(500, <<>>)
          ELSE \E emails0 \in GetAllWithEmbeddings(search.corpus, SearchUser) :
               LET scored == {emails0[i] : i \in {k \in DOMAIN emails0 :
                                 search.corpus[emails0[k]].embedding # Empty}}
                   score(id) == search.corpus[id].embedding
               IN \E sorted \in SortedBy(scored, score) :
                      done(200, Prefix(sorted, Clamp(limit)))
    /\ UNCHANGED storeVars

\* POST /search/generate-embeddings: each email of the batch is embedded and
\* stored; a failure of either call counts the email as failed and the loop
\* goes on.
GenerateEmbeddings(limit, repoErr) ==
    /\ search.pc = "idle"
    /\ LET lim == IF limit <= 0 THEN defaultBatch
                  ELSE IF limit > maxBatch THEN maxBatch ELSE limit
       IN IF repoErr
          THEN search' = [search EXCEPT !.pc = "embedded", !.req = <<limit>>,
                                        !.code = 500]
          ELSE \E batch \in GetEmailsWithoutEmbedding(search.corpus, SearchUser, lim),
                  vector \in Scores :
               \E outcome \in [DOMAIN batch -> {"ok", "embed-failed", "store-failed"}] :
               LET ok == {i \in DOMAIN batch : outcome[i] = "ok"}
                   processed == Cardinality(ok)
                   failed == Len(batch) - processed
               IN search' =
                   [search EXCEPT
                      !.pc = "embedded", !.req = <<limit, batch, outcome>>,
                      !.code = 200,
                      !.counts = IF Len(batch) = 0 THEN <<0>>
                                 ELSE <<processed, failed,
                                        Len(batch) - processed - failed>>,
                      !.corpus = [id \in DOMAIN search.corpus |->
                                    IF \E i \in ok : batch[i] = id
                                    THEN [search.corpus[id] EXCEPT !.embedding = vector]
                                    ELSE search.corpus[id]]]
    /\ UNCHANGED storeVars

\* GeminiEmbeddingService.BatchGenerateEmbeddings: the texts are embedded
\* one by one; the first failure returns nil and the error. The result is
\* the list of vectors (Null where there is none) and the error flag.
RECURSIVE BatchLoop(_, _, _)
BatchLoop(outcome, i, embeddings) ==
    IF i > Len(outcome) THEN <<embeddings, FALSE>>
    ELSE IF ~outcome[i] THEN <<[k \in DOMAIN outcome |-> Null], TRUE>>
    ELSE BatchLoop(outcome, i + 1, [embeddings EXCEPT ![i] = 1])

BatchGenerateEmbeddings ==
    /\ search.pc = "idle"
    /\ \E n \in 1..MaxTexts : \E outcome \in [1..n -> BOOLEAN] :
        search' = [search EXCEPT !.pc = "batch", !.req = outcome,
                                 !.results = BatchLoop(outcome, 1, [k \in 1..n |-> Null])]
    /\ UNCHANGED storeVars

\* ---------------------------------------------------------------- embedding vectors

\* EMBEDDING_PROVIDER: the embedding services a process can be started with.
Providers == {"gemini", "openai"}

\* NewEmbeddingService: the dimension of the provider's vectors, gemini's 768
\* and openai's 1536 scaled down to 1 and 2.
Dimension(provider) == IF provider = "gemini" THEN 1 ELSE 2

\* GenerateEmbedding: the vectors a provider can answer with.
Vectors(provider) == [1..Dimension(provider) -> {0, 1}]

\* The emails of the user whose vectors are followed.
VectorIds == {"m1", "m2"}

RECURSIVE DotProduct(_, _, _)
DotProduct(a, b, i) ==
    IF i > Len(a) THEN 0 ELSE a[i] * b[i] + DotProduct(a, b, i + 1)

\* CosineSimilarity: 0 for vectors of different lengths, for empty vectors
\* and for a vector of norm 0; else dot / (|a| * |b|), kept here as its
\* square in quarters, which orders vectors of components 0 and 1 as the
\* cosine does.
CosineSimilarity(a, b) ==
    IF Len(a) # Len(b) \/ Len(a) = 0 THEN 0
    ELSE LET dotProduct == DotProduct(a, b, 1)
             normA == DotProduct(a, a, 1)
             normB == DotProduct(b, b, 1)
         IN IF normA = 0 \/ normB = 0 THEN 0
            ELSE (4 * dotProduct * dotProduct) \div (normA * normB)

\* SetEmbedding: $set embedding on the document of the id.
SetEmbedding(corpus, emailID, embedding) ==
    [id \in DOMAIN corpus |-> IF id = emailID THEN embedding ELSE corpus[id]]

NoVectors(provider) ==
    [provider |-> provider, corpus |-> [id \in VectorIds |-> <<>>], op |-> "start",
     code |-> 0, query |-> <<>>, results |-> <<>>, counts |-> <<>>]

\* The process is started again with another EMBEDDING_PROVIDER; the
\* collection stays.
Restart(provider) ==
    /\ provider # search.provider
    /\ search' = [NoVectors(provider) EXCEPT !.corpus = search.corpus, !.op = "restart"]
    /\ UNCHANGED storeVars

\* POST /search/generate-embeddings on a batch that holds every email without
\* a vector: each is embedded by the provider of this process and stored; a
\* failure of either call counts the email as failed.
GenerateVectors(repoErr) ==
    /\ IF repoErr
       THEN search' = [search EXCEPT !.op = "embed", !.code = 500, !.query = <<>>,
                                     !.results = <<>>, !.counts = <<>>]
       ELSE LET batch == {id \in VectorIds : Len(search.corpus[id]) = 0}
            IN \E ok \in SUBSET batch : \E embedding \in [ok -> Vectors(search.provider)] :
               search' = [search EXCEPT
                  !.op = "embed", !.code = 200, !.query = <<>>, !.results = <<>>,
                  !.counts = IF batch = {} THEN <<0>>
                             ELSE <<Cardinality(ok), Cardinality(batch \ ok), 0>>,
                  !.corpus = [id \in VectorIds |->
                                IF id \in ok THEN SetEmbedding(search.corpus, id, embedding[id])[id]
                                ELSE search.corpus[id]]]
    /\ UNCHANGED storeVars

\* POST /search/semantic with a query that is not blank: the query is
\* embedded by the provider of this process and every email with a vector is
\* scored against it, sorted by score and cut at the limit.
SemanticScore(limit, embedErr, repoErr) ==
    /\ IF embedErr \/ repoErr
       THEN search' = [search EXCEPT !.op = "search", !.code = 500, !.query = <<>>,
                                     !.results = <<>>, !.counts = <<>>]
       ELSE \E queryEmbedding \in Vectors(search.provider) :
            LET scored == {id \in VectorIds : Len(search.corpus[id]) > 0}
                score(id) == CosineSimilarity(queryEmbedding, search.corpus[id])
            IN \E sorted \in SortedBy(scored, score) :
               search' = [search EXCEPT
                  !.op = "search", !.code = 200, !.query = queryEmbedding,
                  !.counts = <<>>,
                  !.results = [i \in DOMAIN Prefix(sorted, Clamp(limit)) |->
                                 [id |-> sorted[i], score |-> score(sorted[i])]]]
    /\ UNCHANGED storeVars

\* ---------------------------------------------------------------- handlers: GET /api/kanban

\* The column of an email that is kept under its status as it is stored.
KanbanKey_NoDefault(e) == e.status

\* key := string(e.Status); if key == "" { key = string(models.StatusInbox) }
KanbanKey(e) == IF e.status = "" THEN StatusInbox ELSE e.status

\* EmailRepository.GetKanban: the user's documents without the TRASH label,
\* newest first, each appended to the list of its key; one board for each
\* order the sort allows.
GetKanban(store, trash, userID) ==
    LET Board(order) ==
            LET InColumn(key) ==
                    {i \in DOMAIN order : KanbanKey(store[order[i]]) = key}
                Column(key) ==
                    [n \in 1..Cardinality(InColumn(key)) |->
                        order[CHOOSE i \in InColumn(key) :
                                Cardinality({j \in InColumn(key) : j <= i}) = n]]
            IN [key \in {KanbanKey(store[order[i]]) : i \in DOMAIN order} |-> Column(key)]
    IN {Board(order) :
          order \in SortedBy({id \in DOMAIN store :
                                /\ store[id].userId = userID
                                /\ id \notin trash}, ReceivedAt)}

\* The card the handler builds from an email.
Card(id, e) == [id |-> id, summary |-> e.summary, snoozedUntil |-> e.snoozedUntil]

NoBoard(trash) == [pc |-> "idle", trash |-> trash, user |-> "-", code |-> 0,
                   columns |-> <<>>]

\* GET /api/kanban: 500 when the repository fails, else the columns of cards.
KanbanRead(userID, repoErr) ==
    /\ IF repoErr
       THEN search' = [search EXCEPT !.pc = "read", !.user = userID, !.code = 500,
                                     !.columns = <<>>]
       ELSE \E board \in GetKanban(emails, search.trash, userID) :
            search' = [search EXCEPT
                  !.pc = "read", !.user = userID, !.code = 200,
                  !.columns = [status \in DOMAIN board |->
                                 [i \in DOMAIN board[status] |->
                                    Card(board[status][i], emails[board[status][i]])]]]
    /\ UNCHANGED storeVars

\* ---------------------------------------------------------------- KanbanConfigHandler

\* The GET /api/kanban/columns requests that can be in flight at once.
Readers == {"r1", "r2"}

\* InitDefaultColumns: the keys of the five default columns.
defaults == {StatusInbox, StatusTodo, StatusInProgress, StatusDone, StatusSnoozed}

\* The kanban_columns collection of a user without columns: the number of
\* documents per column key.
NoColumns == [key \in defaults |-> 0]

RECURSIVE SumOver(_, _)
SumOver(f, S) ==
    IF S = {} THEN 0
    ELSE LET k == CHOOSE x \in S : TRUE IN f[k] + SumOver(f, S \ {k})

\* collection.CountDocuments({userId: userID})
CountDocuments(collection, userID) == SumOver(collection[userID], defaults)

\* collection.InsertMany(docs): every default column gets a fresh ObjectID, and
\* the collection has no unique index on (userId, key), so all five are added.
InsertMany(collection, userID) ==
    [collection EXCEPT ![userID] = [key \in defaults |-> @[key] + 1]]

NoReader == [pc |-> "idle", user |-> "-", code |-> 0, columns |-> NoColumns]

\* GET /api/kanban/columns arrives: the handler is about to call InitDefaultColumns.
ColumnsBegin(r, userID) ==
    /\ search.readers[r].pc = "idle"
    /\ search' = [search EXCEPT !.readers[r] = [NoReader EXCEPT !.pc = "count", !.user = userID]]
    /\ UNCHANGED storeVars

\* InitDefaultColumns: count the user's columns; an error answers 500, a
\* count above zero skips the insert.
ColumnsCount(r, err) ==
    /\ search.readers[r].pc = "count"
    /\ search' = [search EXCEPT
          !.readers[r].pc = IF err THEN "idle"
                            ELSE IF CountDocuments(search.collection, search.readers[r].user) > 0
                            THEN "fetch" ELSE "insert",
          !.readers[r].code = IF err THEN 500 ELSE 0]
    /\ UNCHANGED storeVars

\* InitDefaultColumns: insert the five default columns; an error answers 500.
ColumnsInsert(r, err) ==
    /\ search.readers[r].pc = "insert"
    /\ search' = [search EXCEPT
          !.collection = IF err THEN @ ELSE InsertMany(@, search.readers[r].user),
          !.seeds[search.readers[r].user] = IF err THEN @ ELSE @ + 1,
          !.readers[r].pc = IF err THEN "idle" ELSE "fetch",
          !.readers[r].code = IF err THEN 500 ELSE 0]
    /\ UNCHANGED storeVars

\* configRepo.GetColumns: answer 200 with the user's columns, or 500.
ColumnsFetch(r, err) ==
    /\ search.readers[r].pc = "fetch"
    /\ search' = [search EXCEPT
          !.readers[r].pc = "idle",
          !.readers[r].code = IF err THEN 500 ELSE 200,
          !.readers[r].columns = IF err THEN NoColumns
                                 ELSE search.collection[search.readers[r].user]]
    /\ UNCHANGED storeVars

\* ---------------------------------------------------------------- specifications

\* The emails collection holds, for each id, either nothing yet or the
\* document its owner's first sync stored.
InitStores ==
    {[id \in S |-> NewDoc(RemoteOwner(id), StatusInbox, Null, "")] : S \in SUBSET Ids}

InitStore ==
    /\ emails \in InitStores
    /\ now = 0
    /\ wpc = "wait"
    /\ wdue = <<>>
    /\ spc = "idle"
    /\ sync = NoSync
    /\ last = Internal("start", "-")
    /\ owed = {}
    /\ ctl = NoFaults

Init ==
    /\ InitStore
    /\ search = NoSearch

\* The foreground Kanban calls alone, with canonical targets.
NextKanban ==
    \/ \E u \in Users, id \in Ids, to \in Canonical : Move(u, id, to)
    \/ \E u \in Users, id \in Ids, until \in UntilInputs : Snooze(u, id, until)
    \/ AdvanceClock

SpecKanban == Init /\ [][NextKanban]_vars

\* The Kanban calls and the snooze worker on the emails of two users.
Next ==
    \/ \E u \in Users, id \in Ids, to \in StatusTokens : Move(u, id, to)
    \/ \E u \in Users, id \in Ids, until \in UntilInputs : Snooze(u, id, until)
    \/ AdvanceClock
    \/ WorkerTick
    \/ WorkerRestore

Spec == Init /\ [][Next]_vars

\* The sync goroutine racing the Kanban calls and the worker on one email.
SyncIds == {"m1"}

InitSync ==
    /\ Init
    /\ DOMAIN emails \subseteq SyncIds

NextSync ==
    \/ \E u \in Users, id \in SyncIds, to \in StatusTokens : Move(u, id, to)
    \/ \E u \in Users, id \in SyncIds, until \in UntilInputs : Snooze(u, id, until)
    \/ \E u \in Users, id \in SyncIds : Summarize(u, id)
    \/ \E u \in Users, id \in SyncIds : SyncStart(u, id)
    \/ SyncLookup
    \/ SyncWrite
    \/ AdvanceClock
    \/ WorkerTick
    \/ WorkerRestore

SpecSync == InitSync /\ [][NextSync]_vars

\* The sync goroutine and the Kanban calls of the owner on one email, over a
\* store whose calls to the sync may fail.
InitSyncFaults ==
    /\ emails \in InitStores
    /\ DOMAIN emails \subseteq SyncIds
    /\ now = 0
    /\ wpc = "wait"
    /\ wdue = <<>>
    /\ spc = "idle"
    /\ sync = NoSync
    /\ last = Internal("start", "-")
    /\ owed = {}
    /\ search = NoSearch
    /\ ctl = [NoFaults EXCEPT !.faults = TRUE]

NextSyncFaults ==
    \/ \E id \in SyncIds, to \in Canonical : Move(RemoteOwner(id), id, to)
    \/ \E id \in SyncIds, until \in UntilInputs : Snooze(RemoteOwner(id), id, until)
    \/ \E id \in SyncIds : Summarize(RemoteOwner(id), id)
    \/ \E id \in SyncIds : SyncStart(RemoteOwner(id), id)
    \/ SyncLookup
    \/ SyncWrite
    \/ AdvanceClock

SpecSyncFaults == InitSyncFaults /\ [][NextSyncFaults]_vars

\* One search request over any result lists of the two sources.
InitSearch ==
    /\ InitStore
    /\ emails = [id \in {} |-> NewDoc("-", "", Null, "")]
    /\ \E g \in HitLists(RemoteHits), l \in HitLists(LocalHits) :
        search = [pc |-> "merge", gmailEmails |-> g, localEmails |-> l, finalEmails |-> <<>>]

NextSearch == SearchMerge

SpecSearch == InitSearch /\ [][NextSearch]_vars

\* Search requests of one user over any answers of the remote search, the
\* local search and the board scan. The collection holds the emails the
\* local sources return, each moved to done by its owner. trash holds the
\* messages that bear the TRASH label in the mailbox: the local search and
\* the board scan filter them out, the remote search returns them to the
\* query that asks for them and copies their labels. estimate is the
\* ResultSizeEstimate of the remote answer: the length of the listing, or
\* for one of the queries none or more than a page.
StoredHits == {Hit(id, StatusDone) : id \in SearchIds}

StoreOf(list) ==
    [id \in HitIds(list) |-> NewDoc(SearchUser, StatusDone, Null, "")]

InitHybrid ==
    /\ \E q \in Queries,
          g \in {Answer(TRUE, <<>>)} \cup {Answer(FALSE, h) : h \in HitLists(RemoteHits)},
          l \in {Answer(TRUE, <<>>)} \cup {Answer(FALSE, h) : h \in HitLists(StoredHits)},
          k \in {Answer(TRUE, <<>>), Answer(FALSE, <<>>),
                 Answer(FALSE, <<Hit("m3", StatusDone)>>)},
          t \in {{}, {"m1"}},
          n \in 0..(MaxHits + 2) :
        /\ t \cap HitIds(l.emails \o k.emails) = {}
        /\ t # {} => q = InTrash
        /\ n \in IF q = <<"a", "b", "c">> THEN {0, MaxHits + 2} ELSE {Len(g.emails)}
        /\ search = [query |-> q, gmail |-> g, local |-> l, kanban |-> k,
                     calls |-> 0, code |-> 0, fuzzy |-> FALSE,
                     finalEmails |-> <<>>, syncing |-> <<>>, trash |-> t,
                     estimate |-> n, totalEstimate |-> 0]
        /\ emails = StoreOf(l.emails \o k.emails)
    /\ now = 0
    /\ wpc = "wait"
    /\ wdue = <<>>
    /\ spc = "idle"
    /\ sync = NoSync
    /\ last = Internal("start", "-")
    /\ owed = {}
    /\ ctl = NoFaults

NextHybrid ==
    \/ SearchEmails
    \/ SearchSync

SpecHybrid == InitHybrid /\ [][NextHybrid]_vars

\* One call of GmailService.SearchEmails over a listing of any length up to
\* MaxStubs, or a listing that fails.
InitEnrich ==
    /\ InitStore
    /\ emails = [id \in {} |-> NewDoc("-", "", Null, "")]
    /\ \E n \in 0..MaxStubs, e \in BOOLEAN :
        search = [pc |-> "list", n |-> IF e THEN 0 ELSE n, listErr |-> e,
                  launched |-> 0,
                  gpc |-> [i \in 1..MaxStubs |-> "idle"],
                  chan |-> <<>>, got |-> 0,
                  slots |-> [i \in 1..MaxStubs |-> FALSE],
                  fetched |-> {}, valid |-> <<>>, cancelled |-> FALSE,
                  arrived |-> <<>>]

NextEnrich ==
    \/ ListMessages
    \/ Launch
    \/ \E i \in 1..MaxStubs : FetchFail(i)
    \/ \E i \in 1..MaxStubs : FetchHit(i)
    \/ \E i \in 1..MaxStubs : FetchMiss(i)
    \/ \E i \in 1..MaxStubs : SnippetDone(i)
    \/ SnippetPanic
    \/ RequestCancel
    \/ Collect
    \/ Return

SpecEnrich == InitEnrich /\ [][NextEnrich]_vars

\* The snooze worker with its ticker, over a store whose calls can fail, up
\* to and past the shutdown of the process, beside the calls of each owner
\* on their email. The Go select takes a ready case at random, so a case that
\* stays ready is taken.
InitWorker ==
    /\ emails \in InitStores
    /\ now = 0
    /\ wpc = "wait"
    /\ wdue = <<>>
    /\ spc = "idle"
    /\ sync = NoSync
    /\ last = Internal("start", "-")
    /\ owed = {}
    /\ search = NoSearch
    /\ ctl = [NoFaults EXCEPT !.faults = TRUE]

NextWorker ==
    \/ \E id \in Ids : Move(RemoteOwner(id), id, StatusDone)
    \/ \E id \in Ids, until \in UntilInputs : Snooze(RemoteOwner(id), id, until)
    \/ AdvanceClock
    \/ WorkerTick
    \/ WorkerRestore
    \/ WorkerExit
    \/ Cancel

SpecWorker ==
    /\ InitWorker
    /\ [][NextWorker]_vars
    /\ WF_vars(WorkerRestore)
    /\ WF_vars(WorkerExit)

\* The text functions on any two strings and a summary.
InitText ==
    /\ InitStore
    /\ emails = [id \in {} |-> NewDoc("-", "", Null, "")]
    /\ \E a \in Strings, b \in Strings, c \in {<<>>, <<"x", "k", "c", "q", "y">>} :
        search = NoText(a, b, c)

NextText ==
    \/ ApplyLevenshtein
    \/ ApplyRemoveAccents
    \/ ApplyFuzzy
    \/ ApplyRegex

SpecText == InitText /\ [][NextText]_vars

\* Semantic search and the embedding of batches over any corpus.
InitSemantic ==
    /\ InitStore
    /\ emails = [id \in {} |-> NewDoc("-", "", Null, "")]
    /\ \E corpus \in Corpora : search = NoSemantic(corpus)

NextSemantic ==
    \/ \E query \in {<<>>, <<" ">>, <<"a">>}, limit \in {-1, 0, 1, maxLimit, maxLimit + 1},
          embedErr \in BOOLEAN, repoErr \in BOOLEAN :
          SemanticSearch(query, limit, embedErr, repoErr)
    \/ \E limit \in {0, 1, maxBatch + 1}, repoErr \in BOOLEAN :
          GenerateEmbeddings(limit, repoErr)
    \/ BatchGenerateEmbeddings

SpecSemantic == InitSemantic /\ [][NextSemantic]_vars

\* The vectors of one user's emails over restarts of the process with either
\* embedding provider.
InitVectors ==
    /\ InitStore
    /\ emails = [id \in {} |-> NewDoc("-", "", Null, "")]
    /\ \E provider \in Providers : search = NoVectors(provider)

NextVectors ==
    \/ \E provider \in Providers : Restart(provider)
    \/ \E repoErr \in BOOLEAN : GenerateVectors(repoErr)
    \/ \E limit \in {0, maxLimit}, embedErr \in BOOLEAN, repoErr \in BOOLEAN :
          SemanticScore(limit, embedErr, repoErr)

SpecVectors == InitVectors /\ [][NextVectors]_vars

\* Reads of the board over any collection of up to three emails: m2 may be
\* another user's, m3 may carry the TRASH label; an email has no status, a
\* status of the board, or is snoozed until some time.
BoardStores ==
    {[id \in S |-> NewDoc(IF id = "m2" THEN u ELSE SearchUser, k[id][1], k[id][2], "")] :
        S \in SUBSET SearchIds, u \in Users,
        k \in [SearchIds -> {<<"", Null>>, <<StatusInbox, Null>>, <<StatusTodo, Null>>,
                             <<StatusSnoozed, 1>>, <<StatusSnoozed, Null>>}]}

InitBoard ==
    /\ emails \in BoardStores
    /\ now = 0
    /\ wpc = "wait"
    /\ wdue = <<>>
    /\ spc = "idle"
    /\ sync = NoSync
    /\ last = Internal("start", "-")
    /\ owed = {}
    /\ ctl = NoFaults
    /\ \E trash \in {{}, {"m3"}} : search = NoBoard(trash)

NextBoard == \E userID \in Users, repoErr \in BOOLEAN : KanbanRead(userID, repoErr)

SpecBoard == InitBoard /\ [][NextBoard]_vars

\* Column reads of two users, up to two in flight at once, on a collection
\* that starts without columns. seeds counts the inserts of default columns
\* made for each user.
InitColumns ==
    /\ InitStore
    /\ search = [collection |-> [u \in Users |-> NoColumns],
                 seeds |-> [u \in Users |-> 0],
                 readers |-> [r \in Readers |-> NoReader]]

NextColumns ==
    \/ \E r \in Readers, userID \in Users : ColumnsBegin(r, userID)
    \/ \E r \in Readers, err \in BOOLEAN : ColumnsCount(r, err)
    \/ \E r \in Readers, err \in BOOLEAN : ColumnsInsert(r, err)
    \/ \E r \in Readers, err \in BOOLEAN : ColumnsFetch(r, err)

SpecColumns == InitColumns /\ [][NextColumns]_vars

\* The worker on a ticker that never stops and a store that does not fail,
\* beside the calls of each owner on their email. The worker's goroutine is
\* scheduled, so a step of it that stays possible is taken.
NextRestore ==
    \/ \E id \in Ids, to \in {StatusSnoozed, StatusDone} : Move(RemoteOwner(id), id, to)
    \/ \E id \in Ids, until \in UntilInputs : Snooze(RemoteOwner(id), id, until)
    \/ AdvanceClock
    \/ TickerFires
    \/ WorkerTick
    \/ WorkerRestore

SpecRestore ==
    /\ Init
    /\ [][NextRestore]_vars
    /\ WF_vars(AdvanceClock)
    /\ WF_vars(TickerFires)
    /\ WF_vars(WorkerTick)
    /\ WF_vars(WorkerRestore)

\* ---------------------------------------------------------------- properties

\* deferredUntil (snoozedUntil) is set iff the status is Snoozed.
SnoozeInv(doc) == (doc.snoozedUntil # Null) <=> (doc.status = StatusSnoozed)

\* C1: after any sequence of Move (to a canonical status) and Snooze calls,
\* every stored email has snoozedUntil set if and only if its status is snoozed.
C1_SnoozeInvariant ==
    \A id \in DOMAIN emails : SnoozeInv(emails[id])

\* C2: whenever a write of a Move, a Snooze or the snooze worker lands on an
\* email, the record it leaves has snoozedUntil set iff its status is snoozed.
C2_InvariantAfterEachWrite ==
    [][\A id \in DOMAIN emails :
          (id \in DOMAIN emails' /\ emails'[id] # emails[id]) => SnoozeInv(emails'[id])]_vars

\* C3: a Move whose to_status is none of the five canonical tokens is answered
\* with a 4xx code and leaves the emails collection as it was.
C3_NonCanonicalMoveRejected ==
    [][(last'.op = "move" /\ last'.to \notin Canonical)
          => (last'.code >= 400 /\ last'.code < 500 /\ emails' = emails)]_vars

\* C4: when a Move or a Snooze call leaves an email in status snoozed, the
\* email has a snoozedUntil and it lies after the time of the call.
C4_SnoozedOnlyWithFutureTime ==
    [][\A id \in DOMAIN emails' :
          (/\ last'.op \in {"move", "snooze"}
           /\ last'.id = id
           /\ last'.code = 200
           /\ emails'[id].status = StatusSnoozed)
          => (emails'[id].snoozedUntil # Null /\ emails'[id].snoozedUntil > now)]_vars

\* C5: a Move of a stored email to a canonical status other than snoozed
\* succeeds whatever the current status, and leaves status = to_status and
\* snoozedUntil unset.
C5_MoveSetsStatusClearsDeferral ==
    [][\A id \in DOMAIN emails :
          (/\ last'.op = "move"
           /\ last'.id = id
           /\ last'.to \in Canonical \ {StatusSnoozed})
          => (/\ last'.code = 200
              /\ emails'[id].status = last'.to
              /\ emails'[id].snoozedUntil = Null)]_vars

\* C5's scenario: a snoozed email has just been moved to done.
C5_MovedOutOfSnoozed ==
    /\ last.op = "move"
    /\ last.to = StatusDone
    /\ last.was = StatusSnoozed
    /\ last.code = 200
    /\ emails[last.id].status = StatusDone
    /\ emails[last.id].snoozedUntil = Null

\* The `until` strings that are RFC3339 instants, and the instant each denotes
\* (minutes since the epoch, in UTC).
C6_Instants ==
    [s \in {"1970-01-01T00:01:00Z", "1970-01-01T01:02:00+01:00", "2099-01-01T00:00:00Z"} |->
        CASE s = "1970-01-01T00:01:00Z" -> 1
          [] s = "1970-01-01T01:02:00+01:00" -> 2
          [] OTHER -> 67848480]

\* C6: a Snooze whose `until` is no RFC3339 instant is answered 400 and changes
\* nothing; one whose `until` is an instant is answered 200 and leaves the
\* stored email with status snoozed and snoozedUntil = that instant, whatever
\* its status was.
C6_SnoozeParsesUntil ==
    [][last'.op = "snooze" =>
          IF last'.until \in DOMAIN C6_Instants
          THEN /\ last'.code = 200
               /\ \A id \in DOMAIN emails :
                    last'.id = id =>
                        /\ emails'[id].status = StatusSnoozed
                        /\ emails'[id].snoozedUntil = C6_Instants[last'.until]
          ELSE /\ last'.code = 400
               /\ emails' = emails]_vars

\* C6's case: an email that was done has just been snoozed by a parseable until
\* given with a zone offset.
C6_SnoozedFromDone ==
    /\ last.op = "snooze"
    /\ last.until = "1970-01-01T01:02:00+01:00"
    /\ last.was = StatusDone
    /\ last.code = 200
    /\ emails[last.id].status = StatusSnoozed
    /\ emails[last.id].snoozedUntil = 2

\* C7: once a tick of the snooze worker has finished, every email that was
\* snoozed with snoozedUntil <= now when the tick listed the due emails, and
\* that no user call has acted on since, has status inbox and no snoozedUntil.
C7_TickRestoresDue ==
    wpc = "wait" =>
        \A id \in owed :
            /\ emails[id].status = StatusInbox
            /\ emails[id].snoozedUntil = Null

\* C7's case: a tick has just restored the last of its due emails.
C7_TickFinished ==
    /\ wpc = "wait"
    /\ last.op = "restore"
    /\ last.id \in owed
    /\ last.was = StatusSnoozed
    /\ emails[last.id].status = StatusInbox

\* C8: the upsert of a remote email leaves status, snoozedUntil and summary of
\* an existing record as they were stored immediately before its write, and
\* stores an email without a record with status inbox.
C8_UpsertPreservesWorkflowFields ==
    [][last'.op = "upsert" =>
          IF last'.id \in DOMAIN emails
          THEN /\ emails'[last'.id].status = emails[last'.id].status
               /\ emails'[last'.id].snoozedUntil = emails[last'.id].snoozedUntil
               /\ emails'[last'.id].summary = emails[last'.id].summary
          ELSE emails'[last'.id].status = StatusInbox]_vars

\* C9: a Move, Snooze or Summarize call of one user changes no email that
\* another user owns.
C9_MutationsScopedToOwner ==
    [][\A id \in DOMAIN emails :
          (/\ last'.op \in {"move", "snooze", "summarize"}
           /\ emails[id].userId # last'.user)
          => emails'[id] = emails[id]]_vars

\* C10: the merged search result holds no id twice, holds every id either
\* source returned, and for an id the remote source returned it holds the
\* remote version.
C10_MergeDedupKeepsRemote ==
    search.pc = "done" =>
        LET final == search.finalEmails
            gmail == search.gmailEmails
            local == search.localEmails
        IN /\ \A i, j \in DOMAIN final : final[i].id = final[j].id => i = j
           /\ HitIds(gmail) \cup HitIds(local) \subseteq HitIds(final)
           /\ \A i \in DOMAIN final :
                final[i].id \in HitIds(gmail) =>
                    \E k \in DOMAIN gmail : gmail[k] = final[i]

\* C10's scenario: one id returned by both sources, merged with another hit.
C10_OverlapMerged ==
    /\ search.pc = "done"
    /\ HitIds(search.gmailEmails) \cap HitIds(search.localEmails) # {}
    /\ Len(search.finalEmails) >= 2

\* A query without its leading spaces, and without its trailing spaces.
RECURSIVE C11_TrimLeft(_)
C11_TrimLeft(q) ==
    IF q # <<>> /\ Head(q) = " " THEN C11_TrimLeft(Tail(q)) ELSE q

RECURSIVE C11_TrimRight(_)
C11_TrimRight(q) ==
    IF q # <<>> /\ q[Len(q)] = " " THEN C11_TrimRight(SubSeq(q, 1, Len(q) - 1)) ELSE q

\* C11: a search that is answered invokes the fuzzy fallback if and only if
\* the remote and the local search together returned no email and the query,
\* without its leading and trailing spaces, has more than 3 characters.
C11_FuzzyGating ==
    (search.calls >= 1 /\ search.code = 200) =>
        (search.fuzzy <=>
            /\ HitIds(search.gmail.emails) \cup HitIds(LocalOrEmpty(search.local)) = {}
            /\ Len(C11_TrimRight(C11_TrimLeft(search.query))) > 3)

\* C12: the list a search returns is ordered by receivedAt, newest first.
C12_NewestFirst ==
    (search.calls >= 1 /\ search.code = 200) =>
        \A i, j \in DOMAIN search.finalEmails :
            i < j => ReceivedAt(search.finalEmails[i].id) >= ReceivedAt(search.finalEmails[j].id)

\* C13: a search repeated with the same query, over the same answers of the
\* remote and the local search, returns the same emails in the same order.
C13_RepeatedSearchSameOrder ==
    [][(/\ search.calls >= 1
        /\ search'.calls = search.calls + 1
        /\ search'.query = search.query
        /\ search'.gmail = search.gmail
        /\ search'.local = search.local
        /\ search'.kanban = search.kanban)
       => search'.finalEmails = search.finalEmails]_vars

\* C14: a search whose remote call fails is answered 500 with no emails, hands
\* nothing to the sync and leaves the collection as it was; a search whose
\* local call alone fails is answered 200 with every remote hit, and with
\* nothing but the remote hits unless the fallback ran.
C14_RemoteFatalLocalDegrades ==
    (search.calls >= 1 /\ search.query # <<>>) =>
        /\ search.gmail.err =>
              /\ search.code = 500
              /\ search.finalEmails = <<>>
              /\ search.syncing = <<>>
              /\ emails = StoreOf(search.local.emails \o search.kanban.emails)
        /\ (~search.gmail.err /\ search.local.err) =>
              /\ search.code = 200
              /\ \A k \in DOMAIN search.gmail.emails :
                    \E i \in DOMAIN search.finalEmails :
                        search.finalEmails[i] = search.gmail.emails[k]
              /\ ~search.fuzzy =>
                    HitIds(search.finalEmails) = HitIds(search.gmail.emails)

\* C14's case: the local search failed, the remote one returned two emails,
\* and the request has answered with both and synced them.
C14_LocalFailedRemoteReturned ==
    /\ search.calls >= 1
    /\ search.local.err
    /\ Len(search.gmail.emails) = 2
    /\ search.code = 200
    /\ Len(search.finalEmails) = 2
    /\ HitIds(search.gmail.emails) \subseteq DOMAIN emails

\* C15: the goroutines launched and not yet returned, and so the detail
\* fetches in flight, never number more than maxConcurrency, and the loop
\* launches the next one only from a state with fewer than that in flight.
C15_InFlightBounded ==
    /\ [](Tokens(search) <= maxConcurrency)
    /\ [][search'.launched > search.launched => Tokens(search) < maxConcurrency]_vars

\* C15's case: the semaphore is full and the loop has messages left to launch.
C15_LaunchBlocked ==
    /\ search.pc = "launch"
    /\ search.launched < search.n
    /\ Tokens(search) = maxConcurrency

\* C16: when the enrichment of a listing is over, it has returned, without an
\* error, the messages whose fetch succeeded, each of them once and no other.
C16_ReturnsSuccessfulFetches ==
    search.pc \in {"returned", "crashed"} =>
        /\ search.pc = "returned"
        /\ \A i, j \in DOMAIN search.valid : search.valid[i] = search.valid[j] => i = j
        /\ {search.valid[i] : i \in DOMAIN search.valid} = search.fetched

\* C17: the enrichment can always take a step until it has returned (or the
\* listing has failed), and by then every goroutine it launched has returned.
C17_EnrichmentTerminates ==
    /\ ~ENABLED NextEnrich => search.pc \in {"returned", "failed"}
    /\ search.pc \in {"returned", "failed"} =>
          \A i \in Fetchers(search) : search.gpc[i] = "done"

\* C18: a failed update of one due email is only logged: the step changes no
\* email and nothing a request reads, and when the tick has finished every
\* other email it listed as due, unless a user call has acted on it since or
\* its own update failed, has status inbox and no snoozedUntil.
C18_FailureSkipsOneEmail ==
    /\ [](wpc = "wait" =>
            \A id \in owed :
                /\ emails[id].status = StatusInbox
                /\ emails[id].snoozedUntil = Null)
    /\ [][last'.op = "restore-failed" =>
            /\ emails' = emails
            /\ <<spc, sync, search>>' = <<spc, sync, search>>
            /\ wdue' = Tail(wdue)]_vars

\* C18's case: a tick has finished with the restore of an email after the
\* update of another email of the same tick had failed.
C18_RestoredAfterFailure ==
    /\ wpc = "wait"
    /\ last.op = "restore"
    /\ last.was = StatusSnoozed
    /\ last.id \in owed
    /\ ctl.failed # {}
    /\ ~ctl.cancelled
    /\ emails[last.id].status = StatusInbox

\* C19: a step the worker takes once its context is cancelled changes no
\* email, and a worker whose context is cancelled exits.
C19_CancelStopsWorker ==
    /\ [][(ctl.cancelled /\ last'.op \in {"tick", "tick-failed", "restore", "restore-failed", "exit"})
            => emails' = emails]_vars
    /\ (ctl.cancelled ~> wpc = "exited")

\* C19's case: the worker has exited on a cancellation that came while an
\* email it had listed was still waiting to be restored.
C19_ExitedWithDueLeft ==
    /\ wpc = "exited"
    /\ ctl.cancelled
    /\ ctl.failed # {}
    /\ \E id \in ctl.failed :
        /\ emails[id].status = StatusSnoozed
        /\ emails[id].snoozedUntil <= now

\* C20: the ticker's channel never holds more than one tick, and the worker
\* takes a tick from it only when it is processing none.
C20_OneTickAtATime ==
    /\ [](ctl.pending <= 1)
    /\ [][ctl'.pending < ctl.pending => (wpc = "wait" /\ wdue = <<>>)]_vars

\* C20's case: the ticker has fired while the worker was restoring the emails
\* of the tick before, and that tick is pending.
C20_TickPendingWhileRestoring ==
    /\ wpc = "restore"
    /\ ctl.pending = 1
    /\ last.op = "clock"

\* C29: a Move, a Snooze and a step of the snooze worker leave the set of
\* stored ids as it was, and change nothing but the status and the
\* snoozedUntil of the email they name; a call naming an id without a record
\* changes nothing.
C29_NoCreateNoDelete ==
    [][last'.op \in {"move", "snooze", "tick", "restore"} =>
          /\ DOMAIN emails' = DOMAIN emails
          /\ \A id \in DOMAIN emails :
                /\ id # last'.id => emails'[id] = emails[id]
                /\ emails'[id].userId = emails[id].userId
                /\ emails'[id].summary = emails[id].summary]_vars

\* C29's case: a Move naming an id without a record has been answered, beside
\* a stored email.
C29_MoveOnMissingId ==
    /\ last.op = "move"
    /\ last.code = 200
    /\ last.id \notin DOMAIN emails
    /\ DOMAIN emails # {}

\* C21: once the request is cancelled the enrichment launches no further
\* fetch and no fetch in flight goes on to succeed.
C21_CancelAbortsEnrichment ==
    [][search.cancelled =>
          /\ search'.launched = search.launched
          /\ search'.fetched = search.fetched]_vars

\* The classic edit distance by its recurrence, a row at a time: acc holds
\* the distances of the prefix of a ending in ch to the prefixes of b
\* shorter than Len(acc), above the distances of the prefix before it.
RECURSIVE C24_Row(_, _, _, _)
C24_Row(above, ch, b, acc) ==
    IF Len(acc) = Len(b) + 1 THEN acc
    ELSE LET j == Len(acc)
             cost == IF ch = b[j] THEN 0 ELSE 1
         IN C24_Row(above, ch, b,
                    Append(acc, Min3(above[j + 1] + 1, acc[j] + 1, above[j] + cost)))

RECURSIVE C24_Rows(_, _, _, _)
C24_Rows(a, b, i, above) ==
    IF i > Len(a) THEN above
    ELSE C24_Rows(a, b, i + 1, C24_Row(above, a[i], b, <<i>>))

C24_Distance(a, b) == C24_Rows(a, b, 1, [j \in 1..(Len(b) + 1) |-> j - 1])[Len(b) + 1]

\* C24: the distance computed is the classic edit distance of the two
\* lower-cased strings, the same in both directions, zero from a string to
\* itself, and the length of the string from it to the empty string.
C24_ClassicLevenshtein ==
    search.pc = "lev" =>
        /\ search.out[1] = C24_Distance(ToLower(search.a), ToLower(search.b))
        /\ search.out[1] = search.out[2]
        /\ search.out[3] = 0
        /\ search.out[4] = Len(search.a)

C24_CaseOnlyDifference ==
    /\ search.pc = "lev"
    /\ Len(search.a) = 2 /\ search.a # search.b
    /\ ToLower(search.a) = ToLower(search.b)
    /\ search.out[1] = 0

\* The letter a character is written on, whatever its diacritic.
C25_Base(ch) ==
    CASE ch \in {"á", "à"} -> "a"
      [] ch = "Á" -> "A"
      [] ch \in {"é", "ê"} -> "e"
      [] ch = "ü" -> "u"
      [] ch = "U+0111" -> "d"
      [] OTHER -> ch

\* The accented letters of the Vietnamese alphabet among the characters.
C25_Vietnamese == {"á", "à", "Á", "é", "ê", "U+0111"}

C25_SameUpToDiacritics(a, b) ==
    /\ Len(a) = Len(b)
    /\ \A i \in DOMAIN a : C25_Base(a[i]) = C25_Base(b[i])

C25_VietnameseOnly(a) ==
    \A i \in DOMAIN a : a[i] # C25_Base(a[i]) => a[i] \in C25_Vietnamese

C25_IdempotentPassThrough ==
    /\ search.out[3] = search.out[1]
    /\ Len(search.out[1]) = Len(search.a)
    /\ \A i \in DOMAIN search.a :
          search.a[i] = C25_Base(search.a[i]) => search.out[1][i] = search.a[i]

\* C25 as stated: folding twice is folding once, a character without a
\* diacritic is left as it is, and two strings that differ only in
\* diacritics fold to the same string.
C25_FoldAnyDiacritics ==
    search.pc = "fold" =>
        /\ C25_IdempotentPassThrough
        /\ C25_SameUpToDiacritics(search.a, search.b) => search.out[1] = search.out[2]

\* C25 amended: folding twice is folding once, a character without a
\* diacritic is left as it is, and two strings that differ only in the
\* diacritics of precomposed Vietnamese letters fold to the same string.
C25_FoldVietnamese ==
    search.pc = "fold" =>
        /\ C25_IdempotentPassThrough
        /\ /\ C25_SameUpToDiacritics(search.a, search.b)
           /\ C25_VietnameseOnly(search.a)
           /\ C25_VietnameseOnly(search.b)
           => search.out[1] = search.out[2]

C25_FoldedToSame ==
    /\ search.pc = "fold"
    /\ search.a = <<"A", "á">> /\ search.b = <<"A", "a">>
    /\ search.out[1] = <<"A", "a">> /\ search.out[2] = <<"A", "a">>

C22_Near(query, field) ==
    C24_Distance(ToLower(RemoveAccents(query)), ToLower(RemoveAccents(field))) <= 3

\* C22: the fallback takes an email of the board exactly when the folded
\* query is within distance 3 of the folded subject or, the email having a
\* summary, of the folded summary.
C22_FuzzyIffWithinThree ==
    search.pc = "fuzzy" =>
        (search.out[1] <=>
            \/ C22_Near(search.a, search.b)
            \/ search.c # <<>> /\ C22_Near(search.a, search.c))

\* C23: the pattern of a query matches a field that contains the query up
\* to letter case and the accents of either.
C23_MatchesUpToAccents ==
    search.pc = "regex" =>
        ((\E off \in 0..(Len(search.b) - Len(search.a)) :
            \A k \in DOMAIN search.a :
                ToLower(RemoveAccents(search.b))[off + k]
                    = ToLower(RemoveAccents(search.a))[k])
         => search.out[1])

\* The emails the request may return: the caller's, with a vector, not in
\* the trash.
C26_Candidates ==
    {id \in DOMAIN search.corpus :
        /\ search.corpus[id].userId = SearchUser
        /\ search.corpus[id].embedding \in Scores
        /\ ~search.corpus[id].trash}

C26_Returned == {search.results[i] : i \in DOMAIN search.results}

\* C26: a semantic search that is served returns no more results than the
\* limit asked for and never more than the largest limit, each an email of
\* the caller with an embedding, in order of non-increasing score; an email
\* left out scores no higher than any returned, and is left out only by a
\* list as long as the limit, which is at least one. A request without
\* matches is served with an empty list.
C26_TopByScore ==
    search.pc = "searched" =>
        LET limit == search.req[2]
            n == Len(search.results)
            score(id) == search.corpus[id].embedding
        IN /\ (\E i \in DOMAIN search.req[1] : search.req[1][i] # " ")
                  /\ ~search.req[3] /\ ~search.req[4] => search.code = 200
           /\ search.code = 200 =>
                /\ n <= maxLimit
                /\ limit >= 1 => n <= limit
                /\ C26_Returned \subseteq C26_Candidates
                /\ \A i, j \in DOMAIN search.results :
                      i < j => /\ search.results[i] # search.results[j]
                               /\ score(search.results[i]) >= score(search.results[j])
                /\ \A c \in C26_Candidates \ C26_Returned :
                      /\ \A r \in C26_Returned : score(r) >= score(c)
                      /\ n >= 1
                      /\ limit \in 1..maxLimit => n = limit
                      /\ limit > maxLimit => n = maxLimit

C26_CutAtLargestLimit ==
    /\ search.pc = "searched" /\ search.code = 200
    /\ search.req[2] > maxLimit
    /\ Len(search.results) = maxLimit
    /\ C26_Candidates \ C26_Returned # {}
    /\ search.corpus[search.results[1]].embedding
          > search.corpus[search.results[maxLimit]].embedding

C26_NoMatchIsSuccess ==
    /\ search.pc = "searched" /\ search.code = 200
    /\ search.results = <<>>

\* C27: embedding a batch goes on after an item that fails: every email of
\* the batch is counted once, as processed or as failed, the emails that
\* did not fail have their vector stored, and every text that did not fail
\* has its vector in the result.
C27_BatchSurvivesFailure ==
    /\ search.pc = "embedded" /\ search.code = 200 /\ Len(search.counts) = 3 =>
          LET batch == search.req[2]
              outcome == search.req[3]
          IN /\ search.counts[1] + search.counts[2] = Len(batch)
             /\ search.counts[1] = Cardinality({i \in DOMAIN batch : outcome[i] = "ok"})
             /\ search.counts[3] = 0
             /\ \A i \in DOMAIN batch :
                   outcome[i] = "ok" <=> search.corpus[batch[i]].embedding \in Scores
    /\ search.pc = "batch" =>
          \A i \in DOMAIN search.req : search.req[i] => search.results[1][i] # Null

\* C28: no email with the TRASH label is in the result of a search.
C28_NoTrashInResults ==
    search.code = 200 =>
        \A i \in DOMAIN search.finalEmails : search.finalEmails[i].id \notin search.trash

\* The places of the board at which the card of an email is found.
C30_Places(id) ==
    {p \in (DOMAIN search.columns) \X (1..Cardinality(SearchIds)) :
        /\ p[2] \in DOMAIN search.columns[p[1]]
        /\ search.columns[p[1]][p[2]].id = id}

C38_ListingOrderKept ==
    search.pc = "returned" =>
        /\ \A i, j \in DOMAIN search.valid : i < j => search.valid[i] < search.valid[j]
        /\ {search.valid[i] : i \in DOMAIN search.valid}
              = {k \in 1..search.n : search.slots[k]}

C38_CollectedOutOfOrder ==
    /\ search.pc = "returned"
    /\ Len(search.valid) >= 2
    /\ \E i, j \in DOMAIN search.arrived :
          /\ i < j /\ search.arrived[i] > search.arrived[j]
          /\ search.slots[search.arrived[i]] /\ search.slots[search.arrived[j]]

\* C33: the totalEstimate of a search response is the larger of the remote
\* estimate and the number of emails returned, so never less than that
\* number.
C33_TotalEstimateIsMax ==
    search.code = 200 =>
        /\ search.totalEstimate >= Len(search.finalEmails)
        /\ search.totalEstimate >= search.estimate
        /\ search.totalEstimate \in {search.estimate, Len(search.finalEmails)}

C33_MoreReturnedThanEstimated ==
    /\ search.code = 200
    /\ search.estimate < Len(search.finalEmails)
    /\ search.gmail.emails # <<>>
    /\ search.totalEstimate = Len(search.finalEmails)

\* C35: the worker sets an email to inbox only when, at that write, the
\* email is snoozed with a snoozedUntil that has passed.
C35_RestoreOnlyWhileDue ==
    [][last'.op = "restore" /\ last'.id \in DOMAIN emails =>
          /\ emails[last'.id].status = StatusSnoozed
          /\ emails[last'.id].snoozedUntil # Null
          /\ emails[last'.id].snoozedUntil <= now]_vars

\* C36: no email stays snoozed forever: once the users leave an email alone,
\* it does not stay snoozed, be it with a time the clock reaches or with
\* none.
C36_NoSnoozedForever ==
    \A id \in Ids :
        <>[][last'.op \in {"move", "snooze"} => last'.id # id]_vars
            => []<>~(/\ id \in DOMAIN emails
                     /\ emails[id].status = StatusSnoozed
                     /\ emails[id].snoozedUntil <= MaxTime)


\* C34: a sync upsert that races the Kanban calls and the worker leaves the
\* stored record with snoozedUntil set exactly when its status is snoozed: a
\* record that is so before the upsert's write is so after it.
C34_UpsertKeepsDeferralWithStatus ==
    [][(/\ last'.op = "upsert"
        /\ last'.id \in DOMAIN emails
        /\ (emails[last'.id].snoozedUntil # Null) <=> (emails[last'.id].status = StatusSnoozed))
       => ((emails'[last'.id].snoozedUntil # Null) <=> (emails'[last'.id].status = StatusSnoozed))]_vars


\* C37: a sync upsert whose lookup of the stored record failed with an error
\* leaves status, snoozedUntil and summary of an already-stored email as they
\* were stored before its write.
C37_FailedLookupKeepsWorkflowFields ==
    [][(/\ last'.op = "upsert"
        /\ sync.err
        /\ last'.id \in DOMAIN emails)
       => /\ emails'[last'.id].status = emails[last'.id].status
          /\ emails'[last'.id].snoozedUntil = emails[last'.id].snoozedUntil
          /\ emails'[last'.id].summary = emails[last'.id].summary]_vars


\* C31: the default columns are seeded once per user: whatever column reads
\* have run or are running, a user is seeded at most once, and a user who has
\* columns has exactly one column for each canonical status.
C31_SeededOncePerUser ==
    \A u \in Users :
        /\ search.seeds[u] <= 1
        /\ CountDocuments(search.collection, u) > 0 =>
               \A status \in Canonical : search.collection[u][status] = 1


\* C32: the vectors stored for a user all have one dimension, and a search
\* that answers 200 has compared the query only with vectors of the query's
\* dimension: a vector of another dimension is an error, not a stored vector
\* or a score.
C32_OneDimensionPerUser ==
    /\ \A a, b \in VectorIds :
          (Len(search.corpus[a]) > 0 /\ Len(search.corpus[b]) > 0)
              => Len(search.corpus[a]) = Len(search.corpus[b])
    /\ (search.op = "search" /\ search.code = 200) =>
          \A i \in DOMAIN search.results :
              Len(search.corpus[search.results[i].id]) = Len(search.query)

====
